---- MODULE Spec2Model ----
(***************************************************************************)
(* Server-side session refresh and action proxy of convex-auth (Next.js).  *)
(*                                                                         *)
(*   handleAuthenticationInRequest  src/src/nextjs/server/request.ts       *)
(*   proxyAuthActionToConvex        src/unnamed/part_000 (lines 508-585)   *)
(*                                                                         *)
(*   setup wizard (.action)         src/unnamed/part_000 (lines 22-304)    *)
(*                                                                         *)
(* Spec: one request is in flight at a time.  Each handler is cut at its   *)
(* await points (the backend call fetchAction), so `pc` is the handler's   *)
(* position and the backend's answer is an input of the step that resumes  *)
(* the handler.  SpecRace: two requests of one browser in flight together, *)
(* each with its own run of getRefreshedTokens.  SpecWizard: one run of    *)
(* the setup wizard over a deployment's variables and a convex folder.     *)
(***************************************************************************)
EXTENDS Integers, Sequences, FiniteSets, TLC

VARIABLES
    pc,             \* position of the request being handled
    request,        \* the incoming request (method, headers, url, body)
    incoming,       \* the auth cookies exactly as the browser sent them
    cookies,        \* the request-scoped mutable cookie view
    now,            \* Date.now() as read by getRefreshedTokens (ms)
    reads,          \* cookie values the scheduler / code exchange read
    refreshTokens,  \* local `refreshTokens` of handleAuthenticationInRequest
    calls,          \* backend calls (fetchAction) made for this request
    result,         \* what the last backend call settled with
    response,       \* what the handler returned
    hops,           \* requests the browser sent before this one in a row
    previous,       \* the response to the request before this one
    browserJar,     \* the browser's cookies while it has requests in flight
    race,           \* per in-flight request: the run of getRefreshedTokens for it
    applied,        \* the requests whose responses the browser applied, in order
    wizardPc,       \* position of the setup wizard (the CLI's .action)
    config,         \* the wizard's ProjectConfig: usesTypeScript, isVite
    env,            \* the deployment's environment variables
    files,          \* the source files of the convex folder
    setup,          \* env and files as they were when the wizard started
    answers         \* what the user answered to each step's prompt

requestVars == <<pc, request, incoming, cookies, now, reads, refreshTokens, calls, result,
                 response, hops, previous>>
raceVars == <<browserJar, race, applied>>
\* What a step of the single-request machine leaves alone.
wizardVars == <<wizardPc, config, env, files, setup, answers>>
outsideRequest == <<raceVars, wizardVars>>
vars == <<requestVars, raceVars, wizardVars>>

----------------------------------------------------------------------------
(* JavaScript values.  Every cookie, header and token is a string; null and *)
(* undefined are kept apart because the code tells them apart.              *)

Null == "null"
Undefined == "undefined"
Unread == "unread"          \* a cookie no stage has read yet
Untouched == "untouched"    \* a response cookie the handler did not write

Min(a, b) == IF a < b THEN a ELSE b
Max(a, b) == IF a > b THEN a ELSE b

NullTokens == [token |-> Null, refreshToken |-> Null]
UndefinedTokens == [token |-> Undefined, refreshToken |-> Undefined]

----------------------------------------------------------------------------
(* Bounds and inputs.                                                       *)

\* Date.now() ranges over 1000 s + k * 10 s, k in 0..MaxTick.
MaxTick == 12

\* Requests the browser sends in a row (a redirect followed, an action
\* called again) after the first one.
MaxHops == 2

REQUIRED_TOKEN_LIFETIME_MS == 60000
MINIMUM_REQUIRED_TOKEN_LIFETIME_MS == 10000

TickMs == MINIMUM_REQUIRED_TOKEN_LIFETIME_MS
NowValues == {1000000 + k * TickMs : k \in 0..MaxTick}

Methods == {"GET", "POST"}
\* Origin header: absent, the serving host, or another site.
Origins == {Undefined, "https://app.example", "https://evil.example"}
Host == "https://app.example"
\* Accept header: absent, or the list of media ranges it carries.
AcceptHeaders ==
    { [present |-> FALSE, types |-> {}],
      [present |-> TRUE, types |-> {"text/html", "application/xhtml+xml"}],
      [present |-> TRUE, types |-> {"application/json"}] }
\* searchParams.get("code"): null when absent, "" for `?code=`.
Codes == {Null, "", "abc123"}

\* Access-token cookie values.  "garbage" is not a JWT; the others decode.
AccessTokens == {"garbage", "jwt1000", "jwt300", "jwt50", "jwtNoExp", "jwtNoIat"}
RefreshTokenValues == {"r1"}
Verifiers == {"v1"}

\* What the backend can mint.
NewPair == [token |-> "jwtNew", refreshToken |-> "r2"]

\* Two requests of one browser (two tabs, a page and its prefetch).
Senders == {"a", "b"}
\* The pair the backend mints for the refresh call of each.
IssuedPair(s) ==
    IF s = "a" THEN [token |-> "jwtA", refreshToken |-> "rA"]
               ELSE [token |-> "jwtB", refreshToken |-> "rB"]

CookieViews ==
    [token : AccessTokens \cup {Null},
     refreshToken : RefreshTokenValues \cup {Null},
     verifier : Verifiers \cup {Null}]

NoArgs == [refreshToken |-> Undefined, params |-> Undefined,
           code |-> Undefined, verifier |-> Undefined]

\* Body of a proxy POST: { action, args } (or not JSON at all).
\* `ok` is false when the body does not parse; `hasArgs` is false when the
\* parsed object has no `args`.
ProxyBodies ==
    { [ok |-> FALSE, action |-> Undefined, hasArgs |-> FALSE, args |-> NoArgs] } \cup
    { [ok |-> TRUE, action |-> a, hasArgs |-> FALSE, args |-> NoArgs] :
        a \in {"auth:signIn", "auth:signOut", "bogus"} } \cup
    { [ok |-> TRUE, action |-> a, hasArgs |-> TRUE,
       args |-> [NoArgs EXCEPT !.refreshToken = rt, !.params = p]] :
        a \in {"auth:signIn", "auth:signOut", "bogus"},
        rt \in {Undefined, "dummy", "r1", "forged"},
        p \in {Undefined, "github"} }

NoBody == [ok |-> FALSE, action |-> Undefined, hasArgs |-> FALSE, args |-> NoArgs]

----------------------------------------------------------------------------
(* The backend action invoker (fetchAction) is outside the repository: its  *)
(* answer is an input.  A result is the SignInAction return shape, every    *)
(* field optional; `threw` is a transport failure.                          *)

NoResult ==
    [threw |-> FALSE, isNull |-> FALSE, redirect |-> Undefined,
     verifier |-> Undefined, tokens |-> UndefinedTokens, started |-> Undefined]

Threw == [NoResult EXCEPT !.threw = TRUE]

SignInResults ==
    { [NoResult EXCEPT !.tokens = NewPair],
      [NoResult EXCEPT !.tokens = NullTokens],
      [NoResult EXCEPT !.redirect = "https://idp.example/authorize",
                       !.verifier = "v2"],
      [NoResult EXCEPT !.started = "true"],
      Threw }

SignOutResults == { [NoResult EXCEPT !.isNull = TRUE], Threw }

BackendResults(action) ==
    IF action = "auth:signIn" THEN SignInResults ELSE SignOutResults

----------------------------------------------------------------------------
(* Responses.                                                               *)

NoCookieWrites ==
    [token |-> Untouched, refreshToken |-> Untouched, verifier |-> Untouched]

NoJson ==
    [isNull |-> FALSE, redirect |-> Undefined, verifier |-> Undefined,
     tokens |-> UndefinedTokens, started |-> Undefined]

NoUrl == [path |-> Undefined, code |-> Null]

NoResponse ==
    [kind |-> "none", status |-> 0, url |-> NoUrl, body |-> NoJson,
     refreshTokens |-> UndefinedTokens, setCookies |-> NoCookieWrites]

----------------------------------------------------------------------------
(* Helpers of ./utils.js and ./cookies.js (not among the sources; modelled  *)
(* from their contract in the specification).                               *)

\* isCorsRequest: an Origin header is present and names another host.
isCorsRequest(req) == req.origin # Undefined /\ req.origin # Host

\* setAuthCookies(response, tokens): a pair is written to the token and
\* refreshToken cookies; null clears the three auth cookies.
setAuthCookies(tokens) ==
    IF tokens = NullTokens
    THEN [token |-> Null, refreshToken |-> Null, verifier |-> Null]
    ELSE [token |-> tokens.token, refreshToken |-> tokens.refreshToken,
          verifier |-> Untouched]

\* The browser's cookies once it has applied a response's cookie writes.
ApplyCookies(jar, writes) ==
    [token |-> IF writes.token = Untouched THEN jar.token ELSE writes.token,
     refreshToken |-> IF writes.refreshToken = Untouched
                      THEN jar.refreshToken ELSE writes.refreshToken,
     verifier |-> IF writes.verifier = Untouched THEN jar.verifier ELSE writes.verifier]

\* getRequestCookies() and getRequestCookiesInMiddleware(request) give the
\* same request-scoped mutable view: the variable `cookies`.
getRequestCookies == cookies

----------------------------------------------------------------------------
(* request.ts                                                               *)

\* validateCors forgetting the verifier cookie.
validateCorsKeepsVerifier(req, view) ==
    IF isCorsRequest(req)
    THEN [token |-> Null, refreshToken |-> Null, verifier |-> view.verifier]
    ELSE view

\* validateCors: a cross-origin request loses the three auth cookies.
validateCors(req, view) ==
    IF isCorsRequest(req)
    THEN [token |-> Null, refreshToken |-> Null, verifier |-> Null]
    ELSE view

\* jwtDecode reads the payload without checking the signature; exp and iat
\* are optional claims (seconds).  A missing claim is `undefined`, and the
\* arithmetic on it is NaN.
JwtPayload(token) ==
    CASE token = "jwt1000"  -> [ok |-> TRUE, hasExp |-> TRUE, exp |-> 1100, hasIat |-> TRUE, iat |-> 100]
      [] token = "jwt300"   -> [ok |-> TRUE, hasExp |-> TRUE, exp |-> 1100, hasIat |-> TRUE, iat |-> 800]
      [] token = "jwt50"    -> [ok |-> TRUE, hasExp |-> TRUE, exp |-> 1100, hasIat |-> TRUE, iat |-> 1050]
      [] token \in {"jwtNew", "jwtA", "jwtB"}
                            -> [ok |-> TRUE, hasExp |-> TRUE, exp |-> 4700, hasIat |-> TRUE, iat |-> 1100]
      [] token = "jwtNoExp" -> [ok |-> TRUE, hasExp |-> FALSE, exp |-> 0, hasIat |-> TRUE, iat |-> 100]
      [] token = "jwtNoIat" -> [ok |-> TRUE, hasExp |-> TRUE, exp |-> 1100, hasIat |-> FALSE, iat |-> 0]
      [] OTHER              -> [ok |-> FALSE, hasExp |-> FALSE, exp |-> 0, hasIat |-> FALSE, iat |-> 0]

\* decodeToken: null (ok = FALSE) when jwtDecode throws.
decodeToken(token) == JwtPayload(token)

totalTokenLifetimeMs(decodedToken) ==
    decodedToken.exp * 1000 - decodedToken.iat * 1000

\* The margin without its one-minute cap: max(10 s, lifetime / 10).
minimumExpirationUncapped(decodedToken, t) ==
    t + Max(MINIMUM_REQUIRED_TOKEN_LIFETIME_MS,
            totalTokenLifetimeMs(decodedToken) \div 10)

\* Date.now() + min(60 s, max(10 s, lifetime / 10)).
minimumExpiration(decodedToken, t) ==
    t + Min(REQUIRED_TOKEN_LIFETIME_MS,
            Max(MINIMUM_REQUIRED_TOKEN_LIFETIME_MS,
                totalTokenLifetimeMs(decodedToken) \div 10))

\* The expiry test with >= for >.
ExpiresFarEnoughOrEqual(decodedToken, t) ==
    /\ decodedToken.hasExp
    /\ decodedToken.hasIat
    /\ decodedToken.exp * 1000 >= minimumExpiration(decodedToken, t)

\* `decodedToken.exp! * 1000 > minimumExpiration`: a comparison with NaN
\* (exp or iat missing) is false.
ExpiresFarEnough(decodedToken, t) ==
    /\ decodedToken.hasExp
    /\ decodedToken.hasIat
    /\ decodedToken.exp * 1000 > minimumExpiration(decodedToken, t)

\* getRefreshedTokens without the pair check: it goes on with one cookie.
RefreshDecisionUnpaired(token, refreshToken, t) ==
    IF refreshToken = Null /\ token = Null THEN "undefined"
    ELSE IF ~decodeToken(token).ok THEN "call"
    ELSE IF ExpiresFarEnough(decodeToken(token), t) THEN "undefined"
    ELSE "call"

\* getRefreshedTokens answering `undefined` whenever a cookie is missing.
RefreshDecisionOneMissing(token, refreshToken, t) ==
    IF refreshToken = Null \/ token = Null THEN "undefined"
    ELSE IF ~decodeToken(token).ok THEN "null"
    ELSE IF ExpiresFarEnough(decodeToken(token), t) THEN "undefined"
    ELSE "call"

\* What getRefreshedTokens does with the cookies it read, before any call:
\* "undefined" / "null" are returned at once, "call" goes to the backend.
RefreshDecision(token, refreshToken, t) ==
    IF refreshToken = Null /\ token = Null THEN "undefined"
    ELSE IF refreshToken = Null \/ token = Null THEN "null"
    ELSE IF ~decodeToken(token).ok THEN "null"
    ELSE IF ExpiresFarEnough(decodeToken(token), t) THEN "undefined"
    ELSE "call"

\* Date.now() is read only when the token decoded.
ReadsClock(token, refreshToken) ==
    token # Null /\ refreshToken # Null /\ decodeToken(token).ok

\* The arguments of the refresh call: { refreshToken }, no bearer token.
RefreshCall(refreshToken) ==
    [stage |-> "refresh", action |-> "auth:signIn",
     args |-> [NoArgs EXCEPT !.refreshToken = refreshToken],
     token |-> Undefined]

\* The refresh result with a failure read as "nothing to change".
RefreshResultKeepsSession(res) ==
    IF res.threw THEN UndefinedTokens
    ELSE IF res.tokens = UndefinedTokens THEN NullTokens
    ELSE res.tokens

\* The refresh result without the check for a missing `tokens`.
RefreshResultNoShapeCheck(res) ==
    IF res.threw THEN NullTokens ELSE res.tokens

\* The try/catch around the refresh call.
RefreshResult(res) ==
    IF res.threw THEN NullTokens
    ELSE IF res.tokens = UndefinedTokens THEN NullTokens
    ELSE res.tokens

\* The code-exchange test without the method check.
ExchangesCodeAnyMethod(req) ==
    /\ req.url.code # Null
    /\ req.url.code # ""
    /\ req.accept.present
    /\ "text/html" \in req.accept.types

\* code && method === "GET" && accept?.includes("text/html")
ExchangesCode(req) ==
    /\ req.url.code # Null
    /\ req.url.code # ""
    /\ req.method = "GET"
    /\ req.accept.present
    /\ "text/html" \in req.accept.types

\* redirectUrl without the searchParams.delete("code").
redirectUrlKeepsCode(url) == url

\* redirectUrl: the request URL without its `code` parameter.
redirectUrl(url) == [url EXCEPT !.code = Null]

\* The arguments of the exchange call: { params: { code }, verifier }.
ExchangeCall(code, verifier) ==
    [stage |-> "exchange", action |-> "auth:signIn",
     args |-> [NoArgs EXCEPT !.code = code,
                             !.verifier = IF verifier = Null THEN Undefined ELSE verifier],
     token |-> Undefined]

\* The redirect's cookies with the catch branch leaving them alone.
ExchangeCookiesKeepOnError(res) ==
    IF res.threw \/ res.tokens = UndefinedTokens
    THEN NoCookieWrites
    ELSE setAuthCookies(res.tokens)

\* The redirect's cookies with a failed exchange falling back on the pair the
\* scheduler refreshed earlier in the request.
ExchangeCookiesFallBackOnRefresh(res) ==
    IF res.threw \/ res.tokens = UndefinedTokens
    THEN IF refreshTokens \notin {NullTokens, UndefinedTokens}
         THEN setAuthCookies(refreshTokens)
         ELSE setAuthCookies(NullTokens)
    ELSE setAuthCookies(res.tokens)

\* The cookies of the redirect, from the try/catch around the exchange.
ExchangeCookies(res) ==
    IF res.threw \/ res.tokens = UndefinedTokens
    THEN setAuthCookies(NullTokens)
    ELSE setAuthCookies(res.tokens)

RedirectResponse(url, writes) ==
    [NoResponse EXCEPT !.kind = "redirect", !.status = 307,
                       !.url = url, !.setCookies = writes]

RefreshTokensResponse(tokens) ==
    [NoResponse EXCEPT !.kind = "refreshTokens", !.refreshTokens = tokens]

----------------------------------------------------------------------------
(* State machine: handleAuthenticationInRequest.                            *)

AuthRequests ==
    [method : Methods, origin : Origins, accept : AcceptHeaders,
     url : [path : {"/cb"}, code : Codes], body : {NoBody}]

NoRequest ==
    [method |-> Undefined, origin |-> Undefined,
     accept |-> [present |-> FALSE, types |-> {}], url |-> NoUrl, body |-> NoBody]

NoReads == [token |-> Unread, refreshToken |-> Unread, verifier |-> Unread]
NoCookies == [token |-> Null, refreshToken |-> Null, verifier |-> Null]

\* The wizard's world before it runs.
EnvNames == {"SITE_URL", "JWT_PRIVATE_KEY", "JWKS"}
\* `convex env get` prints nothing for a variable that is not set.
Unset == ""
EnvValues == {Unset, "old"}
SourceBases == {"auth.config", "auth", "http"}
Extensions == {".ts", ".js"}
\* A file: not there, there with only white space (or nothing) in it, or
\* there with the user's code in it.
Absent == "absent"
Blank == " "
FileContents == {Absent, Blank, "user code"}
Prompts == {"SITE_URL", "keys"} \cup SourceBases
Unasked == "unasked"

\* The wizard has not been started.
WizardAtRest ==
    /\ wizardPc = "off"
    /\ config = [usesTypeScript |-> FALSE, isVite |-> FALSE]
    /\ env = [n \in EnvNames |-> Unset]
    /\ files = [b \in SourceBases |-> [e \in Extensions |-> Absent]]
    /\ setup = [env |-> [n \in EnvNames |-> Unset],
                files |-> [b \in SourceBases |-> [e \in Extensions |-> Absent]]]
    /\ answers = [q \in Prompts |-> Unasked]

\* One run of getRefreshedTokens on behalf of a concurrent request, before
\* the browser sent it.
IdleRun ==
    [pc |-> "idle", view |-> NoCookies, now |-> 0, calls |-> <<>>,
     result |-> NoResult, refreshTokens |-> UndefinedTokens,
     setCookies |-> NoCookieWrites]

\* No request is being handled.
RequestAtRest ==
    /\ pc = "idle"
    /\ request = NoRequest
    /\ incoming = NoCookies
    /\ cookies = NoCookies
    /\ now = 0
    /\ reads = NoReads
    /\ refreshTokens = UndefinedTokens
    /\ calls = <<>>
    /\ result = NoResult
    /\ response = NoResponse
    /\ hops = 0
    /\ previous = NoResponse

Init ==
    /\ RequestAtRest
    /\ browserJar = NoCookies
    /\ race = [s \in Senders |-> IdleRun]
    /\ applied = <<>>
    /\ WizardAtRest

\* A request reaches the request authenticator.
BeginAuthentication ==
    /\ pc = "idle"
    /\ \E req \in AuthRequests, c \in CookieViews :
        /\ request' = req
        /\ incoming' = c
        /\ cookies' = c
    /\ pc' = "validateCors"
    /\ UNCHANGED <<now, reads, refreshTokens, calls, result, response, hops, previous>>
    /\ UNCHANGED outsideRequest

\* validateCors(request)
ValidateCors ==
    /\ pc = "validateCors"
    /\ cookies' = validateCors(request, cookies)
    /\ pc' = "getRefreshedTokens"
    /\ UNCHANGED <<request, incoming, now, reads, refreshTokens, calls, result, response, hops, previous>>
    /\ UNCHANGED outsideRequest

\* getRefreshedTokens up to its return or its await.
GetRefreshedTokens ==
    /\ pc = "getRefreshedTokens"
    /\ LET token == getRequestCookies.token
           refreshToken == getRequestCookies.refreshToken
       IN /\ reads' = [reads EXCEPT !.token = token, !.refreshToken = refreshToken]
          /\ \E t \in (IF ReadsClock(token, refreshToken) THEN NowValues ELSE {0}) :
              /\ now' = t
              /\ LET d == RefreshDecision(token, refreshToken, t)
                 IN IF d = "call"
                    THEN /\ calls' = Append(calls, RefreshCall(refreshToken))
                         /\ pc' = "awaitRefresh"
                         /\ UNCHANGED refreshTokens
                    ELSE /\ refreshTokens' = (IF d = "null" THEN NullTokens ELSE UndefinedTokens)
                         /\ pc' = "codeExchange"
                         /\ UNCHANGED calls
    /\ UNCHANGED <<request, incoming, cookies, result, response, hops, previous>>
    /\ UNCHANGED outsideRequest

\* The refresh call settles.
RefreshCallReturns ==
    /\ pc = "awaitRefresh"
    /\ \E r \in SignInResults :
        /\ result' = r
        /\ refreshTokens' = RefreshResult(r)
    /\ pc' = "codeExchange"
    /\ UNCHANGED <<request, incoming, cookies, now, reads, calls, response, hops, previous>>
    /\ UNCHANGED outsideRequest

\* The code-exchange test; either the exchange call or the plain return.
CodeExchange ==
    /\ pc = "codeExchange"
    /\ IF ExchangesCode(request)
       THEN /\ reads' = [reads EXCEPT !.verifier = getRequestCookies.verifier]
            /\ calls' = Append(calls, ExchangeCall(request.url.code, getRequestCookies.verifier))
            /\ pc' = "awaitExchange"
            /\ UNCHANGED response
       ELSE /\ response' = RefreshTokensResponse(refreshTokens)
            /\ pc' = "done"
            /\ UNCHANGED <<reads, calls>>
    /\ UNCHANGED <<request, incoming, cookies, now, refreshTokens, result, hops, previous>>
    /\ UNCHANGED outsideRequest

\* The exchange call settles: a redirect either way.
ExchangeCallReturns ==
    /\ pc = "awaitExchange"
    /\ \E r \in SignInResults :
        /\ result' = r
        /\ response' = RedirectResponse(redirectUrl(request.url), ExchangeCookies(r))
    /\ pc' = "done"
    /\ UNCHANGED <<request, incoming, cookies, now, reads, refreshTokens, calls, hops, previous>>
    /\ UNCHANGED outsideRequest

\* The response is out; the server waits for the next request.
Finish ==
    /\ pc = "done"
    /\ pc' = "idle"
    /\ request' = NoRequest
    /\ incoming' = NoCookies
    /\ cookies' = NoCookies
    /\ now' = 0
    /\ reads' = NoReads
    /\ refreshTokens' = UndefinedTokens
    /\ calls' = <<>>
    /\ result' = NoResult
    /\ response' = NoResponse
    /\ hops' = 0
    /\ previous' = NoResponse
    /\ UNCHANGED outsideRequest

----------------------------------------------------------------------------
(* proxyAuthActionToConvex                                                  *)

JsonResponse(body, writes) ==
    [NoResponse EXCEPT !.kind = "json", !.status = 200,
                       !.body = body, !.setCookies = writes]

\* new Response("Invalid ...", { status })
TextResponse(status) == [NoResponse EXCEPT !.kind = "text", !.status = status]

\* An exception leaving the handler: the framework answers 500.
ErrorResponse == [NoResponse EXCEPT !.kind = "error", !.status = 500]

\* The guards without the origin check.
ProxyRejectionNoOriginCheck(req) ==
    IF req.method # "POST" THEN 405
    ELSE IF ~req.body.ok THEN 500
    ELSE IF req.body.action # "auth:signIn" /\ req.body.action # "auth:signOut" THEN 400
    ELSE 0

\* The three guards before the body is used; 0 when the request passes.
\* request.json() runs between the origin check and the action check.
ProxyRejection(req) ==
    IF req.method # "POST" THEN 405
    ELSE IF isCorsRequest(req) THEN 403
    ELSE IF ~req.body.ok THEN 500
    ELSE IF req.body.action # "auth:signIn" /\ req.body.action # "auth:signOut" THEN 400
    ELSE 0

\* The placeholder test comparing with the literal "dummy".
UsesStoredRefreshTokenOnlyDummy(body) ==
    body.action = "auth:signIn" /\ body.args.refreshToken = "dummy"

\* action === "auth:signIn" && args.refreshToken !== undefined
UsesStoredRefreshToken(body) ==
    body.action = "auth:signIn" /\ body.args.refreshToken # Undefined

\* The call without `args.refreshToken = refreshToken`.
ProxyCallKeepsClientToken(body, view) ==
    IF UsesStoredRefreshToken(body)
    THEN [stage |-> "proxy", action |-> body.action, args |-> body.args,
          token |-> Undefined]
    ELSE [stage |-> "proxy", action |-> body.action,
          args |-> body.args,
          token |-> IF view.token = Null THEN Undefined ELSE view.token]

\* The call with the token cookie read before the branch, so always attached.
ProxyCallAlwaysBearer(body, view) ==
    [stage |-> "proxy", action |-> body.action,
     args |-> IF UsesStoredRefreshToken(body)
              THEN [body.args EXCEPT !.refreshToken = view.refreshToken]
              ELSE body.args,
     token |-> IF view.token = Null THEN Undefined ELSE view.token]

\* The call the proxy makes: the stored refresh token replaces the client's,
\* otherwise the token cookie (if any) is the bearer credential.
ProxyCall(body, view) ==
    IF UsesStoredRefreshToken(body)
    THEN [stage |-> "proxy", action |-> body.action,
          args |-> [body.args EXCEPT !.refreshToken = view.refreshToken],
          token |-> Undefined]
    ELSE [stage |-> "proxy", action |-> body.action,
          args |-> body.args,
          token |-> IF view.token = Null THEN Undefined ELSE view.token]

\* The projection handing the backend's pair to the client as it is.
ClientTokensLeaky(tokens) == tokens

\* The client-visible projection of the backend's tokens.
ClientTokens(tokens) ==
    IF tokens # NullTokens
    THEN [token |-> tokens.token, refreshToken |-> "dummy"]
    ELSE NullTokens

\* jsonResponse(result): the result's own fields.
ResultAsJson(res) ==
    [isNull |-> res.isNull, redirect |-> res.redirect,
     verifier |-> res.verifier, tokens |-> res.tokens,
     started |-> res.started]

\* Response shaping that forgets setAuthCookies on the tokens branch.
ProxyResponseNoCookies(action, res) ==
    IF res.threw THEN ErrorResponse
    ELSE IF action = "auth:signIn"
    THEN IF res.redirect # Undefined
         THEN JsonResponse([NoJson EXCEPT !.redirect = res.redirect],
                           [NoCookieWrites EXCEPT !.verifier = res.verifier])
         ELSE IF res.tokens # UndefinedTokens
         THEN JsonResponse([NoJson EXCEPT !.tokens = ClientTokens(res.tokens)],
                           NoCookieWrites)
         ELSE JsonResponse(ResultAsJson(res), NoCookieWrites)
    ELSE JsonResponse([NoJson EXCEPT !.isNull = TRUE], setAuthCookies(NullTokens))

\* Response shaping whose signOut branch forgets setAuthCookies.
ProxyResponseSignOutKeepsCookies(action, res) ==
    IF res.threw THEN ErrorResponse
    ELSE IF action = "auth:signIn"
    THEN IF res.redirect # Undefined
         THEN JsonResponse([NoJson EXCEPT !.redirect = res.redirect],
                           [NoCookieWrites EXCEPT !.verifier = res.verifier])
         ELSE IF res.tokens # UndefinedTokens
         THEN JsonResponse([NoJson EXCEPT !.tokens = ClientTokens(res.tokens)],
                           setAuthCookies(res.tokens))
         ELSE JsonResponse(ResultAsJson(res), NoCookieWrites)
    ELSE JsonResponse([NoJson EXCEPT !.isNull = TRUE], NoCookieWrites)

\* Response shaping by result shape alone: a signIn result with neither
\* redirect nor tokens falls through to the null-and-clear branch.
ProxyResponseClearsOnFallthrough(action, res) ==
    IF res.threw THEN ErrorResponse
    ELSE IF action = "auth:signIn" /\ res.redirect # Undefined
    THEN JsonResponse([NoJson EXCEPT !.redirect = res.redirect],
                      [NoCookieWrites EXCEPT !.verifier = res.verifier])
    ELSE IF action = "auth:signIn" /\ res.tokens # UndefinedTokens
    THEN JsonResponse([NoJson EXCEPT !.tokens = ClientTokens(res.tokens)],
                      setAuthCookies(res.tokens))
    ELSE JsonResponse([NoJson EXCEPT !.isNull = TRUE], setAuthCookies(NullTokens))

\* Response shaping whose redirect branch answers jsonResponse(result).
ProxyResponseRedirectWholeResult(action, res) ==
    IF res.threw THEN ErrorResponse
    ELSE IF action = "auth:signIn"
    THEN IF res.redirect # Undefined
         THEN JsonResponse(ResultAsJson(res),
                           [NoCookieWrites EXCEPT !.verifier = res.verifier])
         ELSE IF res.tokens # UndefinedTokens
         THEN JsonResponse([NoJson EXCEPT !.tokens = ClientTokens(res.tokens)],
                           setAuthCookies(res.tokens))
         ELSE JsonResponse(ResultAsJson(res), NoCookieWrites)
    ELSE JsonResponse([NoJson EXCEPT !.isNull = TRUE], setAuthCookies(NullTokens))

\* Response shaping once the backend call has settled.
ProxyResponse(action, res) ==
    IF res.threw THEN ErrorResponse
    ELSE IF action = "auth:signIn"
    THEN IF res.redirect # Undefined
         THEN JsonResponse([NoJson EXCEPT !.redirect = res.redirect],
                           [NoCookieWrites EXCEPT !.verifier = res.verifier])
         ELSE IF res.tokens # UndefinedTokens
         THEN JsonResponse([NoJson EXCEPT !.tokens = ClientTokens(res.tokens)],
                           setAuthCookies(res.tokens))
         ELSE JsonResponse(ResultAsJson(res), NoCookieWrites)
    ELSE JsonResponse([NoJson EXCEPT !.isNull = TRUE], setAuthCookies(NullTokens))

ProxyRequests ==
    [method : Methods, origin : Origins, accept : {[present |-> FALSE, types |-> {}]},
     url : {[path |-> "/api/auth", code |-> Null]}, body : ProxyBodies]

\* A request reaches the action proxy.
BeginProxy ==
    /\ pc = "idle"
    /\ \E req \in ProxyRequests, c \in CookieViews :
        /\ request' = req
        /\ incoming' = c
        /\ cookies' = c
    /\ pc' = "proxy"
    /\ UNCHANGED <<now, reads, refreshTokens, calls, result, response, hops, previous>>
    /\ UNCHANGED outsideRequest

\* proxyAuthActionToConvex up to its return or its await of fetchAction.
ProxyAction ==
    /\ pc = "proxy"
    /\ LET rejection == ProxyRejection(request)
           body == request.body
       IN IF rejection # 0
          THEN /\ response' = (IF rejection = 500 THEN ErrorResponse ELSE TextResponse(rejection))
               /\ pc' = "done"
               /\ UNCHANGED <<reads, calls>>
          ELSE IF body.action = "auth:signIn" /\ ~body.hasArgs
          THEN \* args.refreshToken of an undefined args: a TypeError
               /\ response' = ErrorResponse
               /\ pc' = "done"
               /\ UNCHANGED <<reads, calls>>
          ELSE IF UsesStoredRefreshToken(body)
          THEN /\ reads' = [reads EXCEPT !.refreshToken = getRequestCookies.refreshToken]
               /\ IF getRequestCookies.refreshToken = Null
                  THEN /\ response' = JsonResponse([NoJson EXCEPT !.tokens = NullTokens], NoCookieWrites)
                       /\ pc' = "done"
                       /\ UNCHANGED calls
                  ELSE /\ calls' = Append(calls, ProxyCall(body, getRequestCookies))
                       /\ pc' = "awaitProxy"
                       /\ UNCHANGED response
          ELSE /\ reads' = [reads EXCEPT !.token = getRequestCookies.token]
               /\ calls' = Append(calls, ProxyCall(body, getRequestCookies))
               /\ pc' = "awaitProxy"
               /\ UNCHANGED response
    /\ UNCHANGED <<request, incoming, cookies, now, refreshTokens, result, hops, previous>>
    /\ UNCHANGED outsideRequest

\* The proxied call settles.
ProxyCallReturns ==
    /\ pc = "awaitProxy"
    /\ \E r \in BackendResults(request.body.action) :
        /\ result' = r
        /\ response' = ProxyResponse(request.body.action, r)
    /\ pc' = "done"
    /\ UNCHANGED <<request, incoming, cookies, now, reads, refreshTokens, calls, hops, previous>>
    /\ UNCHANGED outsideRequest

----------------------------------------------------------------------------
(* The browser between two requests.                                        *)

\* The browser follows a redirect: the same navigation to the redirect's
\* URL, with the cookies the redirect left it.
FollowRedirect ==
    /\ pc = "done"
    /\ response.kind = "redirect"
    /\ hops < MaxHops
    /\ request' = [request EXCEPT !.url = response.url]
    /\ incoming' = ApplyCookies(incoming, response.setCookies)
    /\ cookies' = ApplyCookies(incoming, response.setCookies)
    /\ pc' = "validateCors"
    /\ now' = 0
    /\ reads' = NoReads
    /\ refreshTokens' = UndefinedTokens
    /\ calls' = <<>>
    /\ result' = NoResult
    /\ response' = NoResponse
    /\ hops' = hops + 1
    /\ previous' = response
    /\ UNCHANGED outsideRequest

\* The client calls the proxy again with the same body, with the cookies the
\* last response left it.
RepeatAction ==
    /\ pc = "done"
    /\ request.url.path = "/api/auth"
    /\ hops < MaxHops
    /\ incoming' = ApplyCookies(incoming, response.setCookies)
    /\ cookies' = ApplyCookies(incoming, response.setCookies)
    /\ pc' = "proxy"
    /\ now' = 0
    /\ reads' = NoReads
    /\ refreshTokens' = UndefinedTokens
    /\ calls' = <<>>
    /\ result' = NoResult
    /\ response' = NoResponse
    /\ hops' = hops + 1
    /\ previous' = response
    /\ UNCHANGED request
    /\ UNCHANGED outsideRequest

----------------------------------------------------------------------------

Next ==
    \/ BeginAuthentication
    \/ ValidateCors
    \/ GetRefreshedTokens
    \/ RefreshCallReturns
    \/ CodeExchange
    \/ ExchangeCallReturns
    \/ BeginProxy
    \/ ProxyAction
    \/ ProxyCallReturns
    \/ FollowRedirect
    \/ RepeatAction
    \/ Finish

Spec == Init /\ [][Next]_vars

----------------------------------------------------------------------------
(* Two requests of one browser in flight together.  Each is served by its   *)
(* own run of getRefreshedTokens over the cookies the browser sent with it; *)
(* the handlers share no state.  The caller merges the outcome into its     *)
(* response and the browser applies the responses as they arrive.           *)

\* The sessions the browser starts from.
RaceJars ==
    [token : AccessTokens, refreshToken : RefreshTokenValues,
     verifier : Verifiers \cup {Null}]

\* The backend's answers to the refresh call of request s.
RaceResults(s) ==
    { IF r.tokens = NewPair THEN [r EXCEPT !.tokens = IssuedPair(s)] ELSE r :
        r \in SignInResults }

\* What the caller writes for a refresh outcome: nothing for `undefined`,
\* all three cleared for `null`, the new pair otherwise.
OutcomeCookies(outcome) ==
    IF outcome = UndefinedTokens THEN NoCookieWrites ELSE setAuthCookies(outcome)

RaceInit ==
    /\ RequestAtRest
    /\ WizardAtRest
    /\ browserJar \in RaceJars
    /\ race = [s \in Senders |-> IdleRun]
    /\ applied = <<>>

\* The browser sends a same-origin request with the cookies it holds.
RaceSend(s) ==
    /\ race[s].pc = "idle"
    /\ race' = [race EXCEPT ![s].pc = "getRefreshedTokens", ![s].view = browserJar]
    /\ UNCHANGED <<requestVars, wizardVars, browserJar, applied>>

\* getRefreshedTokens for request s, up to its return or its await.
RaceGetRefreshedTokens(s) ==
    /\ race[s].pc = "getRefreshedTokens"
    /\ LET token == race[s].view.token
           refreshToken == race[s].view.refreshToken
       IN \E t \in (IF ReadsClock(token, refreshToken) THEN NowValues ELSE {0}) :
            LET d == RefreshDecision(token, refreshToken, t)
            IN race' = [race EXCEPT
                  ![s].now = IF d = "call" THEN t ELSE 0,
                  ![s].calls = IF d = "call" THEN <<RefreshCall(refreshToken)>> ELSE <<>>,
                  ![s].refreshTokens = IF d = "null" THEN NullTokens ELSE UndefinedTokens,
                  ![s].pc = IF d = "call" THEN "awaitRefresh" ELSE "returned"]
    /\ UNCHANGED <<requestVars, wizardVars, browserJar, applied>>

\* The refresh call of request s settling with one answer for every request
\* that waits on a refresh.
RaceRefreshCallReturnsShared(s) ==
    /\ race[s].pc = "awaitRefresh"
    /\ \E r \in RaceResults(s) :
        race' = [t \in Senders |->
                    IF race[t].pc = "awaitRefresh"
                    THEN [race[t] EXCEPT !.result = r,
                                         !.refreshTokens = RefreshResult(r),
                                         !.now = 0,
                                         !.pc = "returned"]
                    ELSE race[t]]
    /\ UNCHANGED <<requestVars, wizardVars, browserJar, applied>>

\* The refresh call of request s settles; getRefreshedTokens returns.
RaceRefreshCallReturns(s) ==
    /\ race[s].pc = "awaitRefresh"
    /\ \E r \in RaceResults(s) :
        race' = [race EXCEPT ![s].result = r,
                             ![s].refreshTokens = RefreshResult(r),
                             ![s].now = 0,
                             ![s].pc = "returned"]
    /\ UNCHANGED <<requestVars, wizardVars, browserJar, applied>>

\* The caller answers request s with the cookies of the outcome.
RaceRespond(s) ==
    /\ race[s].pc = "returned"
    /\ race' = [race EXCEPT ![s].setCookies = OutcomeCookies(race[s].refreshTokens),
                             ![s].pc = "responded"]
    /\ UNCHANGED <<requestVars, wizardVars, browserJar, applied>>

\* The response to request s reaches the browser.
RaceApply(s) ==
    /\ race[s].pc = "responded"
    /\ browserJar' = ApplyCookies(browserJar, race[s].setCookies)
    /\ applied' = Append(applied, s)
    /\ race' = [race EXCEPT ![s].pc = "applied"]
    /\ UNCHANGED <<requestVars, wizardVars>>

\* What server and browser do for a request once it is sent.
RaceServe(s) ==
    \/ RaceGetRefreshedTokens(s)
    \/ RaceRefreshCallReturns(s)
    \/ RaceRespond(s)
    \/ RaceApply(s)

RaceNext ==
    \/ \E s \in Senders : RaceSend(s)
    \/ \E s \in Senders : RaceGetRefreshedTokens(s)
    \/ \E s \in Senders : RaceRefreshCallReturns(s)
    \/ \E s \in Senders : RaceRespond(s)
    \/ \E s \in Senders : RaceApply(s)

\* Every handler runs to its response (fetchAction returns or throws) and
\* every response reaches the browser.
SpecRace ==
    /\ RaceInit
    /\ [][RaceNext]_vars
    /\ \A s \in Senders : WF_vars(RaceServe(s))

----------------------------------------------------------------------------
(* The setup wizard: the CLI's .action, src/unnamed/part_000 lines 22-292.  *)
(* Every `convex env` command is an execSync that throws when the command   *)
(* fails; an exception leaves .action and ends the process.                 *)

\* "http://localhost:5173" for a Vite project, "http://localhost:3000" else.
siteUrlValue(cfg) ==
    IF cfg.isVite THEN "http://localhost:5173" ELSE "http://localhost:3000"

\* generateKeys(): a fresh key pair.
generateKeys == [JWT_PRIVATE_KEY |-> "new private key", JWKS |-> "new jwks"]

\* String.prototype.trim of a file's content.
trim(content) == IF content = Blank THEN "" ELSE content

\* existsSync(path) && readFileSync(path, "utf8").trim() !== ""
existsAndNotEmpty(fs, base, ext) ==
    /\ fs[base][ext] # Absent
    /\ trim(fs[base][ext]) # ""

\* The look-up of an existing source with only the .ts file tried.
existingNonEmptySourcePathTsOnly(fs, base) ==
    IF existsAndNotEmpty(fs, base, ".ts") THEN ".ts" ELSE Null

\* The extension of the existing non-empty source, .ts tried first; null
\* when neither is there.
existingNonEmptySourcePath(fs, base) ==
    IF existsAndNotEmpty(fs, base, ".ts") THEN ".ts"
    ELSE IF existsAndNotEmpty(fs, base, ".js") THEN ".js"
    ELSE Null

\* The source the wizard writes for a file.
GeneratedSource(base) ==
    CASE base = "auth.config" -> "export default { providers: [...] }"
      [] base = "auth"        -> "export const { auth, signIn, signOut, store } = convexAuth(...)"
      [] OTHER                -> "auth.addHttpRoutes(http)"

\* The path a new file gets: .ts for a TypeScript project, .js otherwise.
newSourcePath(cfg) == IF cfg.usesTypeScript THEN ".ts" ELSE ".js"

WizardInit ==
    /\ RequestAtRest
    /\ browserJar = NoCookies
    /\ race = [s \in Senders |-> IdleRun]
    /\ applied = <<>>
    /\ wizardPc = "checkSourceControl"
    /\ config \in [usesTypeScript : BOOLEAN, isVite : BOOLEAN]
    /\ env \in [EnvNames -> EnvValues]
    /\ files \in [SourceBases -> [Extensions -> FileContents]]
    /\ setup = [env |-> env, files |-> files]
    /\ answers = [q \in Prompts |-> Unasked]

\* checkSourceControl and the reading of package.json, convex.json and the
\* deployment: the wizard goes on, or exits (a declined "Continue anyway?",
\* no package.json, no CONVEX_DEPLOYMENT).
CheckSourceControl ==
    /\ wizardPc = "checkSourceControl"
    /\ \E proceed \in BOOLEAN :
        wizardPc' = IF proceed THEN "configureSiteUrl" ELSE "exited"
    /\ UNCHANGED <<requestVars, raceVars, config, env, files, setup, answers>>

\* configureSiteUrl
ConfigureSiteUrl ==
    /\ wizardPc = "configureSiteUrl"
    /\ \E getWorks, confirmed, setWorks \in BOOLEAN :
        IF ~getWorks
        THEN /\ wizardPc' = "crashed"
             /\ UNCHANGED <<env, answers>>
        ELSE IF env["SITE_URL"] # "" /\ ~confirmed
        THEN /\ answers' = [answers EXCEPT !["SITE_URL"] = "no"]
             /\ wizardPc' = "configureKeys"
             /\ UNCHANGED env
        ELSE /\ answers' = [answers EXCEPT !["SITE_URL"] =
                                IF env["SITE_URL"] # "" THEN "yes" ELSE Unasked]
             /\ IF setWorks
                THEN /\ env' = [env EXCEPT !["SITE_URL"] = siteUrlValue(config)]
                     /\ wizardPc' = "configureKeys"
                ELSE /\ wizardPc' = "crashed"
                     /\ UNCHANGED env
    /\ UNCHANGED <<requestVars, raceVars, config, files, setup>>

\* configureKeys: one prompt for both keys, then two `convex env set`
\* commands, JWT_PRIVATE_KEY first.
ConfigureKeys ==
    /\ wizardPc = "configureKeys"
    /\ \E getWorks, confirmed, setPrivateKeyWorks, setJwksWorks \in BOOLEAN :
        IF ~getWorks
        THEN /\ wizardPc' = "crashed"
             /\ UNCHANGED <<env, answers>>
        ELSE IF (env["JWT_PRIVATE_KEY"] # "" \/ env["JWKS"] # "") /\ ~confirmed
        THEN /\ answers' = [answers EXCEPT !["keys"] = "no"]
             /\ wizardPc' = "configureAuthConfig"
             /\ UNCHANGED env
        ELSE /\ answers' = [answers EXCEPT !["keys"] =
                                IF env["JWT_PRIVATE_KEY"] # "" \/ env["JWKS"] # ""
                                THEN "yes" ELSE Unasked]
             /\ IF ~setPrivateKeyWorks
                THEN /\ wizardPc' = "crashed"
                     /\ UNCHANGED env
                ELSE IF ~setJwksWorks
                THEN /\ env' = [env EXCEPT !["JWT_PRIVATE_KEY"] = generateKeys.JWT_PRIVATE_KEY]
                     /\ wizardPc' = "crashed"
                ELSE /\ env' = [env EXCEPT !["JWT_PRIVATE_KEY"] = generateKeys.JWT_PRIVATE_KEY,
                                           !["JWKS"] = generateKeys.JWKS]
                     /\ wizardPc' = "configureAuthConfig"
    /\ UNCHANGED <<requestVars, raceVars, config, files, setup>>

\* The body shared by configureAuthConfig, initializeAuth and configureHttp:
\* instructions and "Ready to continue?" (or exit) when a non-empty source
\* exists, the new file otherwise.
ConfigureSource(base, next) ==
    IF existingNonEmptySourcePath(files, base) # Null
    THEN /\ \E confirmed \in BOOLEAN :
            /\ answers' = [answers EXCEPT ![base] = IF confirmed THEN "yes" ELSE "no"]
            /\ wizardPc' = IF confirmed THEN next ELSE "exited"
         /\ UNCHANGED files
    ELSE /\ \E writeWorks \in BOOLEAN :
            IF writeWorks
            THEN /\ files' = [files EXCEPT ![base][newSourcePath(config)] = GeneratedSource(base)]
                 /\ wizardPc' = next
            ELSE /\ wizardPc' = "crashed"
                 /\ UNCHANGED files
         /\ UNCHANGED answers

\* configureAuthConfig
ConfigureAuthConfig ==
    /\ wizardPc = "configureAuthConfig"
    /\ ConfigureSource("auth.config", "initializeAuth")
    /\ UNCHANGED <<requestVars, raceVars, config, env, setup>>

\* initializeAuth
InitializeAuth ==
    /\ wizardPc = "initializeAuth"
    /\ ConfigureSource("auth", "configureHttp")
    /\ UNCHANGED <<requestVars, raceVars, config, env, setup>>

\* configureHttp, and the closing "You're all set".
ConfigureHttp ==
    /\ wizardPc = "configureHttp"
    /\ ConfigureSource("http", "allSet")
    /\ UNCHANGED <<requestVars, raceVars, config, env, setup>>

WizardNext ==
    \/ CheckSourceControl
    \/ ConfigureSiteUrl
    \/ ConfigureKeys
    \/ ConfigureAuthConfig
    \/ InitializeAuth
    \/ ConfigureHttp

SpecWizard == WizardInit /\ [][WizardNext]_vars

----------------------------------------------------------------------------
(* Properties.                                                              *)

\* The route of the action proxy (shouldProxyAuthAction compares the path).
Proxied(req) == req.url.path = "/api/auth"
Authenticated(req) == req.url.path = "/cb"

\* The scheduler has run for the request in flight.
SchedulerDone ==
    /\ Authenticated(request)
    /\ pc \in {"awaitRefresh", "codeExchange", "awaitExchange", "done"}

HasCall(stage) == \E i \in 1..Len(calls) : calls[i].stage = stage

RealRefreshTokens == RefreshTokenValues \cup {NewPair.refreshToken}

\* C1: whatever the request, the cookies and the backend's answer, the JSON
\* body of a proxy response never carries a real refresh token: its tokens
\* are absent, null, or a pair whose refreshToken is the literal "dummy";
\* and no other field of the body holds a refresh token.
C1_BodyNeverCarriesRefreshToken ==
    Proxied(request) =>
        /\ \/ response.body.tokens = UndefinedTokens
           \/ response.body.tokens = NullTokens
           \/ response.body.tokens.refreshToken = "dummy"
        /\ response.body.redirect \notin RealRefreshTokens
        /\ response.body.verifier \notin RealRefreshTokens
        /\ response.body.started \notin RealRefreshTokens

\* A signIn answered with a real pair: the body shows the placeholder while
\* the real refresh token went to the cookie.
C1_Witness ==
    /\ Proxied(request)
    /\ pc = "done"
    /\ result.tokens = NewPair
    /\ response.body.tokens.refreshToken = "dummy"
    /\ response.setCookies.refreshToken = NewPair.refreshToken

\* C2: for a cross-origin request the CORS guard has emptied the cookie view
\* before the scheduler and the code exchange read it: the token and
\* refreshToken the scheduler read, and the verifier the exchange read, are
\* null whatever the browser sent.
C2_CrossOriginReadsNull ==
    (Authenticated(request) /\ isCorsRequest(request)) =>
        /\ reads.token \in {Unread, Null}
        /\ reads.refreshToken \in {Unread, Null}
        /\ reads.verifier \in {Unread, Null}
        /\ pc = "getRefreshedTokens" => cookies = NoCookies
        /\ SchedulerDone => reads.token = Null /\ reads.refreshToken = Null
        /\ pc = "awaitExchange" => reads.verifier = Null
        /\ \A i \in 1..Len(calls) :
              /\ calls[i].args.refreshToken = Undefined
              /\ calls[i].args.verifier = Undefined
              /\ calls[i].token = Undefined

\* A cross-origin navigation that arrived with all three cookies and went
\* through the scheduler and into the code exchange.
C2_Witness ==
    /\ Authenticated(request)
    /\ isCorsRequest(request)
    /\ incoming.token # Null /\ incoming.refreshToken # Null /\ incoming.verifier # Null
    /\ pc = "awaitExchange"
    /\ reads = [token |-> Null, refreshToken |-> Null, verifier |-> Null]

\* C3: when the backend's signIn result in the proxy has a tokens field, body
\* and cookies agree: a pair goes to the cookies as it is and to the body with
\* "dummy" for the refresh token; null gives {tokens: null} and cleared
\* cookies.
C3_TokensBodyAndCookiesAgree ==
    (/\ Proxied(request)
     /\ pc = "done"
     /\ HasCall("proxy")
     /\ request.body.action = "auth:signIn"
     /\ ~result.threw
     /\ result.tokens # UndefinedTokens) =>
        /\ response.kind = "json"
        /\ response.status = 200
        /\ IF result.tokens = NullTokens
           THEN /\ response.body = [NoJson EXCEPT !.tokens = NullTokens]
                /\ response.setCookies.token = Null
                /\ response.setCookies.refreshToken = Null
                /\ response.setCookies.verifier = Null
           ELSE /\ response.body =
                     [NoJson EXCEPT !.tokens = [token |-> result.tokens.token,
                                                refreshToken |-> "dummy"]]
                /\ response.setCookies.token = result.tokens.token
                /\ response.setCookies.refreshToken = result.tokens.refreshToken

\* A proxied signIn the backend answered with {tokens: null}.
C3_Witness ==
    /\ Proxied(request)
    /\ pc = "done"
    /\ HasCall("proxy")
    /\ request.body.action = "auth:signIn"
    /\ ~result.threw
    /\ result.tokens = NullTokens
    /\ response.setCookies.token = Null

\* C4: the scheduler classifies the cookies before any network call: both
\* absent is `undefined` (unspecified), exactly one absent is `null`
\* (invalid), both present with an undecodable token is `null`; none of the
\* three calls the backend.
C4_ClassifiedBeforeAnyCall ==
    SchedulerDone =>
        LET t == reads.token
            r == reads.refreshToken
        IN /\ (t = Null /\ r = Null) =>
                 refreshTokens = UndefinedTokens /\ ~HasCall("refresh")
           /\ ((t = Null) # (r = Null)) =>
                 refreshTokens = NullTokens /\ ~HasCall("refresh")
           /\ (t # Null /\ r # Null /\ t = "garbage") =>
                 refreshTokens = NullTokens /\ ~HasCall("refresh")

\* Both cookies present, the token is not a JWT, the handler has returned.
C4_Witness ==
    /\ SchedulerDone
    /\ pc = "done"
    /\ reads.token = "garbage"
    /\ reads.refreshToken = "r1"
    /\ response.kind = "refreshTokens"
    /\ response.refreshTokens = NullTokens
    /\ calls = <<>>

ExactlyOneCookie(view) == (view.token = Null) # (view.refreshToken = Null)

\* C5 as stated: in the scheduler and in the proxy alike, a request with
\* exactly one of the token / refreshToken cookies present never has the
\* present cookie used as a credential of a backend call.
C5_Original_LoneCookieNeverUsed ==
    ExactlyOneCookie(cookies) =>
        \A i \in 1..Len(calls) :
            calls[i].stage \in {"refresh", "proxy"} =>
                /\ calls[i].token = Undefined
                /\ calls[i].args.refreshToken \notin RealRefreshTokens

\* C5 amended: the scheduler treats exactly one present cookie as an invalid
\* session (outcome null, no refresh call).  The proxy reads each cookie on
\* its own: with exactly one present, a signIn carrying args.refreshToken
\* sends the lone refreshToken cookie to the backend, and signOut or a signIn
\* without args.refreshToken attaches the lone token cookie as bearer.
C5_LoneCookieInvalidInSchedulerOnly ==
    ExactlyOneCookie(cookies) =>
        /\ SchedulerDone => refreshTokens = NullTokens /\ ~HasCall("refresh")
        /\ (Proxied(request) /\ HasCall("proxy")) =>
              IF request.body.action = "auth:signIn"
                 /\ request.body.args.refreshToken # Undefined
              THEN /\ cookies.refreshToken # Null
                   /\ calls[1].args.refreshToken = cookies.refreshToken
                   /\ calls[1].token = Undefined
              ELSE /\ calls[1].token =
                        (IF cookies.token = Null THEN Undefined ELSE cookies.token)
                   /\ calls[1].args = request.body.args

\* The scheduler has answered `null` for a request that carried only the
\* refreshToken cookie.
C5_Witness ==
    /\ SchedulerDone
    /\ ~isCorsRequest(request)
    /\ incoming.token = Null
    /\ incoming.refreshToken = "r1"
    /\ pc = "done"
    /\ response.kind = "refreshTokens"
    /\ response.refreshTokens = NullTokens

Clamp(x, lo, hi) == IF x < lo THEN lo ELSE IF x > hi THEN hi ELSE x

\* The scheduler read both cookies and the token decoded with exp and iat.
ScheduledToken ==
    /\ SchedulerDone
    /\ reads.token # Null
    /\ reads.refreshToken # Null
    /\ JwtPayload(reads.token).ok
    /\ JwtPayload(reads.token).hasExp
    /\ JwtPayload(reads.token).hasIat

\* C6: with both cookies present and a decodable token, the scheduler calls
\* the backend iff exp*1000 <= now + clamp((exp - iat)*1000/10, 10 s, 60 s);
\* otherwise the outcome is `undefined` (unchanged) and nothing is called.
C6_RefreshIffWithinMargin ==
    ScheduledToken =>
        LET exp == JwtPayload(reads.token).exp
            iat == JwtPayload(reads.token).iat
            due == exp * 1000 <= now + Clamp((exp - iat) * 100, 10000, 60000)
        IN /\ HasCall("refresh") <=> due
           /\ ~due => refreshTokens = UndefinedTokens

\* A 300 s token exactly 30 s (its 10%) before expiry: the refresh is called.
C6_Witness ==
    /\ ScheduledToken
    /\ reads.token = "jwt300"
    /\ JwtPayload(reads.token).exp * 1000 - now = 30000
    /\ pc = "awaitRefresh"
    /\ HasCall("refresh")

\* The scheduler read both cookies and the token is the one that lives 1000 s.
Scheduled1000 ==
    /\ ScheduledToken
    /\ JwtPayload(reads.token).exp - JwtPayload(reads.token).iat = 1000

\* C7 as stated: a token living 1000 s is refreshed as soon as 100 s or less
\* remain.
C7_Original_RefreshAt100s ==
    (Scheduled1000 /\ JwtPayload(reads.token).exp * 1000 - now <= 100000) =>
        HasCall("refresh")

\* C7 amended: a token living 1000 s is refreshed when 60 s or less remain
\* (its 10%, 100 s, is capped at one minute) and not while more remain.
C7_RefreshAt60s ==
    Scheduled1000 =>
        (HasCall("refresh") <=> JwtPayload(reads.token).exp * 1000 - now <= 60000)

\* The 1000 s token with 100 s .. 61 s left: the scheduler returned
\* `undefined` and called nothing.
C7_Witness ==
    /\ Scheduled1000
    /\ JwtPayload(reads.token).exp * 1000 - now <= 100000
    /\ JwtPayload(reads.token).exp * 1000 - now > 60000
    /\ pc = "codeExchange"
    /\ refreshTokens = UndefinedTokens
    /\ calls = <<>>

\* C8: the refresh call carries the refreshToken cookie as its only argument
\* (and no bearer token); a pair in the result is the outcome as it is;
\* {tokens: null} and a thrown error both give `null` (invalid).
C8_RefreshCallOutcome ==
    (SchedulerDone /\ HasCall("refresh")) =>
        /\ calls[1] = [stage |-> "refresh", action |-> "auth:signIn",
                       args |-> [refreshToken |-> incoming.refreshToken,
                                 params |-> Undefined, code |-> Undefined,
                                 verifier |-> Undefined],
                       token |-> Undefined]
        /\ incoming.refreshToken # Null
        /\ pc = "codeExchange" =>
              /\ (~result.threw /\ result.tokens \notin {NullTokens, UndefinedTokens}) =>
                    refreshTokens = result.tokens
              /\ (~result.threw /\ result.tokens = NullTokens) =>
                    refreshTokens = NullTokens
              /\ result.threw => refreshTokens = NullTokens

\* The refresh call threw and the scheduler answered `null`.
C8_Witness ==
    /\ SchedulerDone
    /\ HasCall("refresh")
    /\ pc = "codeExchange"
    /\ result.threw
    /\ refreshTokens = NullTokens

\* GET, an Accept header with text/html, and a `code` parameter in the URL.
CodeNavigation(req) ==
    /\ req.method = "GET"
    /\ req.accept.present
    /\ "text/html" \in req.accept.types
    /\ req.url.code # Null

\* C9: handleAuthenticationInRequest returns a redirect only for a GET that
\* accepts html and has a `code` parameter; for every other request no
\* exchange call is made and what is returned is the scheduler's outcome.
C9_RedirectOnlyForCodeNavigation ==
    (Authenticated(request) /\ pc \in {"awaitExchange", "done"}) =>
        /\ (pc = "awaitExchange" \/ response.kind = "redirect" \/ HasCall("exchange")) =>
              CodeNavigation(request)
        /\ ~CodeNavigation(request) =>
              /\ response.kind = "refreshTokens"
              /\ response.refreshTokens = refreshTokens
              /\ response.setCookies = NoCookieWrites
              /\ HasCall("refresh") =>
                    response.refreshTokens =
                        (IF result.threw \/ result.tokens = UndefinedTokens
                         THEN NullTokens ELSE result.tokens)

\* A POST with a code and an html Accept header: no exchange, the freshly
\* refreshed pair is returned.
C9_Witness ==
    /\ Authenticated(request)
    /\ pc = "done"
    /\ request.method = "POST"
    /\ request.url.code = "abc123"
    /\ "text/html" \in request.accept.types
    /\ response.kind = "refreshTokens"
    /\ response.refreshTokens = NewPair
    /\ ~HasCall("exchange")

\* A request the code tests as a code exchange: GET, text/html accepted, and
\* a non-empty code.
QualifiesForExchange(req) == CodeNavigation(req) /\ req.url.code # ""

\* C10: every qualifying request is answered with a redirect to the same URL
\* without `code`; the redirect sets the auth cookies to the new pair exactly
\* when the exchange returned a pair, and clears token, refreshToken and
\* verifier when it threw, returned no `tokens`, or returned tokens: null.
C10_ExchangeAlwaysRedirects ==
    (Authenticated(request) /\ pc = "done" /\ QualifiesForExchange(request)) =>
        /\ response.kind = "redirect"
        /\ response.url = [path |-> request.url.path, code |-> Null]
        /\ HasCall("exchange")
        /\ IF ~result.threw /\ result.tokens \notin {NullTokens, UndefinedTokens}
           THEN /\ response.setCookies.token = result.tokens.token
                /\ response.setCookies.refreshToken = result.tokens.refreshToken
           ELSE response.setCookies =
                    [token |-> Null, refreshToken |-> Null, verifier |-> Null]

\* A same-origin code navigation with a session and a verifier whose
\* exchange threw: redirected with the three cookies cleared.
C10_Witness ==
    /\ Authenticated(request)
    /\ pc = "done"
    /\ QualifiesForExchange(request)
    /\ ~isCorsRequest(request)
    /\ incoming.verifier = "v1"
    /\ incoming.refreshToken = "r1"
    /\ result.threw
    /\ response.kind = "redirect"
    /\ response.setCookies = [token |-> Null, refreshToken |-> Null, verifier |-> Null]

\* C11: a navigation with an authorization code lands on the code-stripped
\* URL exactly once: the qualifying request is always answered with a
\* redirect to the URL without `code`, and the request that follows the
\* redirect carries no `code`, makes no exchange call and is not redirected
\* again, whatever the exchange gave.
C11_LandsOnceOnStrippedUrl ==
    Authenticated(request) =>
        /\ (pc = "done" /\ hops = 0 /\ QualifiesForExchange(request)) =>
              /\ response.kind = "redirect"
              /\ response.url = [path |-> request.url.path, code |-> Null]
        /\ hops >= 1 =>
              /\ hops = 1
              /\ previous.kind = "redirect"
              /\ request.url = previous.url
              /\ request.url.code = Null
              /\ pc # "awaitExchange"
              /\ ~HasCall("exchange")
              /\ response.kind # "redirect"

\* The request after a redirect whose exchange failed: handled to the end
\* without an exchange, the scheduler's outcome returned.
C11_Witness ==
    /\ Authenticated(request)
    /\ hops = 1
    /\ pc = "done"
    /\ previous.kind = "redirect"
    /\ previous.setCookies.token = Null
    /\ response.kind = "refreshTokens"
    /\ calls = <<>>

\* The proxy answered with a plain-text rejection and nothing else happened.
RejectedWith(status) ==
    /\ response.kind = "text"
    /\ response.status = status
    /\ response.setCookies = NoCookieWrites
    /\ response.body = NoJson
    /\ calls = <<>>
    /\ reads = NoReads

\* C12: the proxy rejects a non-POST request with 405, a cross-origin POST
\* with 403, and a (same-origin, parsed) POST whose action is neither
\* "auth:signIn" nor "auth:signOut" with 400; in all three the backend is
\* not called and no cookie is set or cleared.
C12_ProxyRejections ==
    (Proxied(request) /\ pc = "done") =>
        /\ request.method # "POST" => RejectedWith(405)
        /\ (request.method = "POST" /\ isCorsRequest(request)) => RejectedWith(403)
        /\ (/\ request.method = "POST"
            /\ ~isCorsRequest(request)
            /\ request.body.ok
            /\ request.body.action \notin {"auth:signIn", "auth:signOut"}) =>
              RejectedWith(400)

\* A cross-origin POST of a signOut that arrived with a session: 403.
C12_Witness ==
    /\ Proxied(request)
    /\ pc = "done"
    /\ request.method = "POST"
    /\ isCorsRequest(request)
    /\ request.body.action = "auth:signOut"
    /\ incoming.token # Null
    /\ incoming.refreshToken # Null
    /\ RejectedWith(403)

\* A proxy request that passed the three rejections and is a signIn of the
\* given kind.
ProxiedSignIn(withRefreshToken) ==
    /\ Proxied(request)
    /\ request.method = "POST"
    /\ ~isCorsRequest(request)
    /\ request.body.ok
    /\ request.body.hasArgs
    /\ request.body.action = "auth:signIn"
    /\ (request.body.args.refreshToken # Undefined) = withRefreshToken

\* C13: a proxy signIn whose args carry a refreshToken, with no refreshToken
\* cookie, is answered 200 {"tokens": null}, writes no cookie and calls
\* nothing.
C13_MissingCookieShortCircuit ==
    (ProxiedSignIn(TRUE) /\ incoming.refreshToken = Null) =>
        /\ calls = <<>>
        /\ pc # "awaitProxy"
        /\ pc = "done" =>
              /\ response.kind = "json"
              /\ response.status = 200
              /\ response.body = [NoJson EXCEPT !.tokens = NullTokens]
              /\ response.setCookies = NoCookieWrites

\* The placeholder sent with a token cookie but no refreshToken cookie.
C13_Witness ==
    /\ ProxiedSignIn(TRUE)
    /\ request.body.args.refreshToken = "dummy"
    /\ incoming.refreshToken = Null
    /\ incoming.token # Null
    /\ pc = "done"
    /\ response.body.tokens = NullTokens
    /\ response.status = 200

\* C14: placeholder transparency.  Whatever the client put in
\* args.refreshToken (the placeholder, the stored value itself, or anything
\* else), the backend receives the refreshToken cookie and the same other
\* arguments, with no bearer token; the response is shaped from the backend's
\* answer alone, so the placeholder gives what the real value gives.
C14_PlaceholderTransparent ==
    (ProxiedSignIn(TRUE) /\ incoming.refreshToken # Null
                         /\ pc \in {"awaitProxy", "done"}) =>
        /\ calls = << [stage |-> "proxy", action |-> "auth:signIn",
                       args |-> [refreshToken |-> incoming.refreshToken,
                                 params |-> request.body.args.params,
                                 code |-> Undefined, verifier |-> Undefined],
                       token |-> Undefined] >>
        /\ (pc = "done" /\ ~result.threw /\ result.redirect = Undefined) =>
              /\ response.body.tokens =
                    (IF result.tokens \in {NullTokens, UndefinedTokens}
                     THEN result.tokens
                     ELSE [token |-> result.tokens.token, refreshToken |-> "dummy"])
              /\ result.tokens # UndefinedTokens =>
                    /\ response.setCookies.token = result.tokens.token
                    /\ response.setCookies.refreshToken = result.tokens.refreshToken

\* The placeholder sent with a stored refresh token; the backend got the
\* stored one and answered with a new pair.
C14_Witness ==
    /\ ProxiedSignIn(TRUE)
    /\ request.body.args.refreshToken = "dummy"
    /\ incoming.refreshToken = "r1"
    /\ pc = "done"
    /\ calls[1].args.refreshToken = "r1"
    /\ result.tokens = NewPair
    /\ response.setCookies.refreshToken = NewPair.refreshToken

\* A signOut that reached the backend and was answered.
ProxiedSignOutAnswered ==
    /\ Proxied(request)
    /\ pc = "done"
    /\ request.body.action = "auth:signOut"
    /\ HasCall("proxy")
    /\ ~result.threw

\* C15: proxy signOut is idempotent.  Whatever cookies it arrives with (none
\* included), a signOut the backend answers returns JSON null and clears the
\* auth cookies; called again it gives the same response and the same (empty)
\* cookie state.
C15_SignOutIdempotent ==
    ProxiedSignOutAnswered =>
        /\ response.kind = "json"
        /\ response.status = 200
        /\ response.body = [NoJson EXCEPT !.isNull = TRUE]
        /\ ApplyCookies(incoming, response.setCookies) = NoCookies
        /\ (hops >= 1 /\ previous.kind = "json") =>
              /\ incoming = NoCookies
              /\ response = previous

\* The third signOut in a row, arriving with no cookie.
C15_Witness ==
    /\ ProxiedSignOutAnswered
    /\ hops = 2
    /\ previous.kind = "json"
    /\ incoming = NoCookies
    /\ response.body.isNull
    /\ response.setCookies = [token |-> Null, refreshToken |-> Null, verifier |-> Null]

\* C16: for signOut and for signIn without args.refreshToken the backend call
\* carries the token cookie as bearer when the cookie is present, none when
\* it is absent, and the client's args as they came; for signIn with
\* args.refreshToken no bearer is attached.
C16_BearerFromTokenCookie ==
    (Proxied(request) /\ HasCall("proxy")) =>
        /\ Len(calls) = 1
        /\ calls[1].action = request.body.action
        /\ IF ProxiedSignIn(TRUE)
           THEN calls[1].token = Undefined
           ELSE /\ incoming.token # Null => calls[1].token = incoming.token
                /\ incoming.token = Null => calls[1].token = Undefined
                /\ calls[1].args = request.body.args

\* A signOut that arrived with a token cookie: the call bears it.
C16_Witness ==
    /\ Proxied(request)
    /\ pc = "awaitProxy"
    /\ request.body.action = "auth:signOut"
    /\ incoming.token = "jwt1000"
    /\ calls[1].token = "jwt1000"

\* The backend answered the proxy with neither `redirect` nor `tokens`.
ProxyResultBare ==
    /\ Proxied(request)
    /\ pc = "done"
    /\ HasCall("proxy")
    /\ ~result.threw
    /\ result.redirect = Undefined
    /\ result.tokens = UndefinedTokens

\* C17 as stated: a result with neither `redirect` nor `tokens` gives JSON
\* null and cleared auth cookies, for signIn as for signOut.
C17_Original_BareResultClears ==
    ProxyResultBare =>
        /\ response.body = [NoJson EXCEPT !.isNull = TRUE]
        /\ response.setCookies = [token |-> Null, refreshToken |-> Null, verifier |-> Null]

\* C17 amended: signOut gives JSON null and cleared auth cookies; a signIn
\* result with neither `redirect` nor `tokens` is sent back as it is and no
\* cookie is written.
C17_BareResultByAction ==
    ProxyResultBare =>
        /\ response.kind = "json"
        /\ response.status = 200
        /\ IF request.body.action = "auth:signOut"
           THEN /\ response.body = [NoJson EXCEPT !.isNull = TRUE]
                /\ response.setCookies =
                      [token |-> Null, refreshToken |-> Null, verifier |-> Null]
           ELSE /\ response.body = [NoJson EXCEPT !.started = result.started]
                /\ ~response.body.isNull
                /\ response.setCookies = NoCookieWrites

\* A signIn with a session answered {started: true}: the body says so and
\* the cookies stay.
C17_Witness ==
    /\ ProxyResultBare
    /\ request.body.action = "auth:signIn"
    /\ incoming.token # Null
    /\ incoming.refreshToken # Null
    /\ result.started = "true"
    /\ response.body.started = "true"
    /\ response.setCookies = NoCookieWrites

\* The backend answered a proxied signIn with a redirect.
ProxyResultRedirect ==
    /\ Proxied(request)
    /\ pc = "done"
    /\ HasCall("proxy")
    /\ request.body.action = "auth:signIn"
    /\ ~result.threw
    /\ result.redirect # Undefined

\* C18: for a signIn result with a `redirect` the body is exactly
\* {redirect}, the verifier cookie is set to the result's verifier, the token
\* and refreshToken cookies are not written, and the verifier is not in the
\* body.
C18_RedirectSetsOnlyVerifier ==
    ProxyResultRedirect =>
        /\ response.kind = "json"
        /\ response.body = [NoJson EXCEPT !.redirect = result.redirect]
        /\ response.body.verifier = Undefined
        /\ result.verifier \notin
              {response.body.redirect, response.body.started,
               response.body.tokens.token, response.body.tokens.refreshToken}
        /\ response.setCookies.verifier = result.verifier
        /\ response.setCookies.token = Untouched
        /\ response.setCookies.refreshToken = Untouched

\* A signIn with a session answered with a redirect and verifier "v2".
C18_Witness ==
    /\ ProxyResultRedirect
    /\ incoming.token # Null
    /\ incoming.refreshToken # Null
    /\ result.verifier = "v2"
    /\ response.setCookies.verifier = "v2"
    /\ ApplyCookies(incoming, response.setCookies).token = incoming.token

\* C19 as stated: a request makes at most one backend call, and no run of
\* handleAuthenticationInRequest makes both a refresh and an exchange call.
C19_Original_AtMostOneCall ==
    /\ Len(calls) <= 1
    /\ ~(HasCall("refresh") /\ HasCall("exchange"))

\* The scheduler found the token it read due for refresh.
TokenDue ==
    /\ reads.token \notin {Null, Unread}
    /\ reads.refreshToken \notin {Null, Unread}
    /\ JwtPayload(reads.token).ok
    /\ \/ ~JwtPayload(reads.token).hasExp
       \/ ~JwtPayload(reads.token).hasIat
       \/ JwtPayload(reads.token).exp * 1000 <=
             now + Clamp((JwtPayload(reads.token).exp - JwtPayload(reads.token).iat) * 100,
                         10000, 60000)

\* C19 amended: the proxy makes at most one backend call; a run of
\* handleAuthenticationInRequest makes at most one refresh call followed by
\* at most one code-exchange call, and makes both exactly when the request
\* qualifies for code exchange and the token is due for refresh.
C19_AtMostTwoCalls ==
    /\ Len(calls) <= 2
    /\ Proxied(request) =>
          /\ Len(calls) <= 1
          /\ \A i \in 1..Len(calls) : calls[i].stage = "proxy"
    /\ Authenticated(request) =>
          /\ \A i \in 1..Len(calls) : calls[i].stage \in {"refresh", "exchange"}
          /\ Len(calls) = 2 => calls[1].stage = "refresh" /\ calls[2].stage = "exchange"
          /\ pc \in {"awaitExchange", "done"} =>
                /\ HasCall("exchange") <=> QualifiesForExchange(request)
                /\ HasCall("refresh") <=> TokenDue
                /\ Len(calls) = 2 <=> (QualifiesForExchange(request) /\ TokenDue)

\* A code navigation with a token past its margin: refreshed, then
\* exchanged, in the same run.
C19_Witness ==
    /\ Authenticated(request)
    /\ pc = "done"
    /\ Len(calls) = 2
    /\ calls[1].stage = "refresh"
    /\ calls[2].stage = "exchange"
    /\ response.kind = "redirect"

\* The scheduler's refresh call was answered with a result without `tokens`
\* and the scheduler is back in handleAuthenticationInRequest.
RefreshLackedTokens ==
    /\ Authenticated(request)
    /\ pc \in {"codeExchange", "done"}
    /\ HasCall("refresh")
    /\ ~HasCall("exchange")
    /\ ~result.threw
    /\ result.tokens = UndefinedTokens

\* C20 as stated: a refresh result without `tokens` makes the scheduler raise
\* an internal fault.
C20_Original_MissingTokensFaults ==
    RefreshLackedTokens => response.kind = "error"

\* C20 amended: a refresh result without `tokens` is thrown and caught inside
\* the scheduler: the outcome is `null` (invalid) as for a transport failure,
\* the handler goes on and no fault reaches its caller.
C20_MissingTokensIsInvalid ==
    /\ Authenticated(request) => response.kind # "error"
    /\ RefreshLackedTokens =>
          /\ refreshTokens = NullTokens
          /\ pc = "done" =>
                /\ response.kind = "refreshTokens"
                /\ response.refreshTokens = NullTokens

\* A refresh answered {started: true}: the handler returned the invalid
\* outcome.
C20_Witness ==
    /\ RefreshLackedTokens
    /\ result.started = "true"
    /\ pc = "done"
    /\ response.kind = "refreshTokens"
    /\ response.refreshTokens = NullTokens

----------------------------------------------------------------------------
\* The exchange call of a qualifying request has settled.
ExchangeSettled ==
    /\ Authenticated(request)
    /\ pc = "done"
    /\ QualifiesForExchange(request)

\* The exchange answered with a token pair.
ExchangeReturnedPair ==
    /\ ~result.threw
    /\ result.tokens \notin {NullTokens, UndefinedTokens}

\* C22: for a request that qualifies for code exchange, the cookies on the
\* redirect are a function of the exchange result alone: the pair it
\* returned, or all three cleared when it failed, whatever the incoming
\* session was and whatever the scheduler's refresh produced earlier in the
\* same request; the refresh outcome is not part of the response.
C22_RedirectCookiesFromExchangeOnly ==
    ExchangeSettled =>
        /\ response.refreshTokens = UndefinedTokens
        /\ ExchangeReturnedPair =>
              /\ response.setCookies.token = result.tokens.token
              /\ response.setCookies.refreshToken = result.tokens.refreshToken
        /\ ~ExchangeReturnedPair =>
              /\ response.setCookies =
                    [token |-> Null, refreshToken |-> Null, verifier |-> Null]
              /\ ApplyCookies(incoming, response.setCookies) = NoCookies

\* A code navigation whose token was due: the scheduler refreshed it to a new
\* pair, the exchange then threw, and the redirect clears all three cookies.
C22_Witness ==
    /\ ExchangeSettled
    /\ Len(calls) = 2
    /\ calls[1].stage = "refresh"
    /\ refreshTokens = NewPair
    /\ incoming.token # Null
    /\ incoming.refreshToken # Null
    /\ result.threw
    /\ response.kind = "redirect"
    /\ response.setCookies = [token |-> Null, refreshToken |-> Null, verifier |-> Null]

----------------------------------------------------------------------------
\* Request s was sent and its scheduler went to the backend.
RaceRefreshed(s) == race[s].calls # <<>>

\* The token request s carried is due at the time its scheduler read.
RaceTokenDue(s) ==
    LET payload == JwtPayload(race[s].view.token)
    IN /\ race[s].view.refreshToken # Null
       /\ payload.ok
       /\ \/ ~payload.hasExp
          \/ ~payload.hasIat
          \/ payload.exp * 1000 <=
                race[s].now + Clamp((payload.exp - payload.iat) * 100, 10000, 60000)

\* The two auth cookies the browser holds.
BrowserPair == [token |-> browserJar.token, refreshToken |-> browserJar.refreshToken]

\* Each request refreshes on its own: while it waits, its one call carries
\* the refresh token it was sent with and its token is due by its own clock;
\* once its call settled, its outcome is the pair minted for that call or
\* `null`, and its response writes exactly that.
RaceOwnRefresh ==
    \A s \in Senders :
        /\ Len(race[s].calls) <= 1
        /\ race[s].pc = "awaitRefresh" =>
              /\ RaceTokenDue(s)
              /\ race[s].calls = <<RefreshCall(race[s].view.refreshToken)>>
        /\ (RaceRefreshed(s) /\ race[s].pc \in {"returned", "responded", "applied"}) =>
              /\ race[s].refreshTokens \in {IssuedPair(s), NullTokens}
              /\ race[s].refreshTokens = NullTokens <=>
                    (race[s].result.threw \/ race[s].result.tokens \notin {IssuedPair(s)})
        /\ (RaceRefreshed(s) /\ race[s].pc \in {"responded", "applied"}) =>
              /\ race[s].setCookies.token = race[s].refreshTokens.token
              /\ race[s].setCookies.refreshToken = race[s].refreshTokens.refreshToken

\* The browser holds what the response applied last wrote, and at all times
\* either no session, the session it started from, or one request's pair:
\* never a token of one pair with the refresh token of another.
RaceLastWriteWins ==
    /\ (applied # <<>> /\ RaceRefreshed(applied[Len(applied)])) =>
          BrowserPair = race[applied[Len(applied)]].refreshTokens
    /\ BrowserPair \in
          {NullTokens} \cup {IssuedPair(s) : s \in Senders} \cup
          [token : AccessTokens, refreshToken : RefreshTokenValues]

\* C21: two requests of one browser that both find the token due each make
\* their own refresh call without waiting on the other; every request sent
\* gets its response applied, in every interleaving; the browser ends with
\* what the response applied last wrote (its pair, or the cleared cookies
\* when its refresh was invalid), never with a mix of the two pairs.
C21_LastWriteWins ==
    /\ [](RaceOwnRefresh /\ RaceLastWriteWins)
    /\ \A s \in Senders : (race[s].pc # "idle") ~> (race[s].pc = "applied")

\* Both requests carried the same due session and both refreshed to their
\* own pair; the response to "a" arrived last and the browser holds a's pair.
C21_Witness ==
    /\ race["a"].view = race["b"].view
    /\ RaceRefreshed("a")
    /\ RaceRefreshed("b")
    /\ race["a"].refreshTokens = IssuedPair("a")
    /\ race["b"].refreshTokens = IssuedPair("b")
    /\ applied = <<"b", "a">>
    /\ BrowserPair = IssuedPair("a")

----------------------------------------------------------------------------
\* The wizard changed an environment variable.
EnvChanged(n) == env[n] # setup.env[n]

\* One of the two keys was set when the wizard started.
KeysExisted == setup.env["JWT_PRIVATE_KEY"] # "" \/ setup.env["JWKS"] # ""

\* Existing values change only after a "yes", a "no" leaves them alone, and
\* a source file that had more than white space in it is as it was.
WizardAsksFirst ==
    /\ (setup.env["SITE_URL"] # "" /\ EnvChanged("SITE_URL")) =>
          answers["SITE_URL"] = "yes"
    /\ (KeysExisted /\ (EnvChanged("JWT_PRIVATE_KEY") \/ EnvChanged("JWKS"))) =>
          answers["keys"] = "yes"
    /\ answers["SITE_URL"] = "no" => ~EnvChanged("SITE_URL")
    /\ answers["keys"] = "no" =>
          (~EnvChanged("JWT_PRIVATE_KEY") /\ ~EnvChanged("JWKS"))
    /\ \A b \in SourceBases, e \in Extensions :
          setup.files[b][e] \notin {Absent, Blank} => files[b][e] = setup.files[b][e]

\* A "no" to an overwrite prompt takes the wizard to its next step.
WizardGoesOnAfterNo ==
    /\ (wizardPc = "configureSiteUrl" /\ answers["SITE_URL"]' = "no") =>
          (wizardPc' = "configureKeys" /\ env' = env)
    /\ (wizardPc = "configureKeys" /\ answers["keys"]' = "no") =>
          (wizardPc' = "configureAuthConfig" /\ env' = env)

\* C23 as stated: existing configuration changes only on confirmation, a
\* decline changes nothing, an existing non-empty source file is never
\* written to, and JWT_PRIVATE_KEY and JWKS are changed together or not at
\* all.
C23_Original_KeysChangeTogether ==
    /\ WizardAsksFirst
    /\ EnvChanged("JWT_PRIVATE_KEY") <=> EnvChanged("JWKS")

\* C23, what the wizard does keep: existing configuration changes only on
\* confirmation, a decline changes nothing and goes on to the next step, an
\* existing source file with more than white space in it is never written
\* to; JWKS never changes without JWT_PRIVATE_KEY, and JWT_PRIVATE_KEY
\* changes alone only in a run that the failure of the second
\* `convex env set` ended.
C23_ConfirmedOrUntouched ==
    /\ [](/\ WizardAsksFirst
          /\ EnvChanged("JWKS") => EnvChanged("JWT_PRIVATE_KEY")
          /\ (EnvChanged("JWT_PRIVATE_KEY") /\ ~EnvChanged("JWKS")) => wizardPc = "crashed")
    /\ [][WizardGoesOnAfterNo]_vars

\* Both keys were set, the user agreed to overwrite them, the first command
\* went through and the second failed: a new private key beside the old
\* JWKS.
C23_Witness ==
    /\ setup.env["JWT_PRIVATE_KEY"] = "old"
    /\ setup.env["JWKS"] = "old"
    /\ answers["keys"] = "yes"
    /\ env["JWT_PRIVATE_KEY"] = generateKeys.JWT_PRIVATE_KEY
    /\ env["JWKS"] = "old"
    /\ wizardPc = "crashed"

====
